---------------------------- MODULE Spec2Model ----------------------------
(***************************************************************************)
(* A model of compiler/src/bytecode.rs of rusty-jsyc: the instruction set, *)
(* the operand encodings, commands, and the Bytecode container.            *)
(*                                                                         *)
(* Representation of the Rust values:                                      *)
(*   u8, usize, Label (u32)  naturals                                      *)
(*   String, Vec<u8>         sequences of bytes (a String is its UTF-8     *)
(*                           bytes; len() is the byte length)              *)
(*   u64                     64 bits, most significant first               *)
(*   i64                     sign and magnitude, [neg, mag], mag 64 bits   *)
(*   f64                     [sign, exponent, fraction] (1, 11, 52 bits)   *)
(*   enum values             records tagged by "kind"                      *)
(*   a call that may panic   [panicked, bytes] / [outcome, ...]            *)
(***************************************************************************)
EXTENDS Integers, Sequences, FiniteSets, TLC

VARIABLES
    arg,        \* the argument of the call a pure-function run is about
    ret,        \* what the last call returned
    pc,         \* the last operation performed
    elements,   \* Bytecode.elements of the container under construction
    iter_pos,   \* commands_iter_mut: elements the underlying iter_mut has passed
    yielded     \* commands_iter_mut: the positions of the &mut Command yielded so far

vars == <<arg, ret, pc, elements, iter_pos, yielded>>

---------------------------------------------------------------------------
(* Bounds of the model *)

MaxStrLen == 2
MaxRegs == 2
MaxNumLen == 3
MaxLabel == 1
MaxElements == 3
MaxFragLen == 2

(* Constants of the program *)

U8_MAX == 255
U16_MAX == 65535

---------------------------------------------------------------------------
(* Machine arithmetic *)

Bytes == 0..255

RECURSIVE BitAnd(_, _)
BitAnd(x, y) ==
    IF x = 0 \/ y = 0 THEN 0
    ELSE (x % 2) * (y % 2) + 2 * BitAnd(x \div 2, y \div 2)

as_u8(x) == x % 256

RECURSIVE Pow2(_)
Pow2(n) == IF n = 0 THEN 1 ELSE 2 * Pow2(n - 1)

Bits8(b) == [i \in 1..8 |-> (b \div Pow2(8 - i)) % 2]

RECURSIVE Flatten(_)
Flatten(ss) == IF ss = <<>> THEN <<>> ELSE Head(ss) \o Flatten(Tail(ss))

\* the u64 written as the hex literal whose eight bytes are bs
U64Hex(bs) == Flatten([i \in 1..8 |-> Bits8(bs[i])])

U64And(a, b) == [i \in 1..64 |-> a[i] * b[i]]

U64Shr(a, k) == [i \in 1..64 |-> IF i > k THEN a[i - k] ELSE 0]

U64Not(a) == [i \in 1..64 |-> 1 - a[i]]

\* wrapping a + 1: a bit flips when every lower bit is 1
U64Inc(a) == [i \in 1..64 |-> IF \A j \in (i + 1)..64 : a[j] = 1 THEN 1 - a[i] ELSE a[i]]

U64AsU8(a) ==
    128 * a[57] + 64 * a[58] + 32 * a[59] + 16 * a[60]
    + 8 * a[61] + 4 * a[62] + 2 * a[63] + a[64]

\* i64 as u64: n mod 2^64
I64AsU64(n) == IF n.neg THEN U64Inc(U64Not(n.mag)) ELSE n.mag

F64ToBits(f) == <<f.sign>> \o f.exponent \o f.fraction

---------------------------------------------------------------------------
(* Instruction *)

Instruction ==
    { "LoadString", "LoadFloatNum", "LoadLongNum", "LoadNum", "LoadArray",
      "PropAccess", "CallFunc", "Eval", "CallBytecodeFunc", "ReturnBytecodeFunc",
      "Copy", "Exit", "JumpCond", "Jump", "JumpCondNeg", "LogicAnd", "LogicOr",
      "CompEqual", "CompNotEqual", "CompStrictEqual", "CompStrictNotEqual",
      "CompLessThan", "CompGreaterThan", "CompLessThanEqual",
      "CompGreaterThanEqual", "Add", "Minus", "Mul", "Div" }

\* a renumbering slip: Minus given the byte of Mul
to_byte_Dup(instruction) ==
    CASE instruction = "LoadString" -> 1
      [] instruction = "LoadNum" -> 2
      [] instruction = "LoadFloatNum" -> 3
      [] instruction = "LoadLongNum" -> 4
      [] instruction = "LoadArray" -> 5
      [] instruction = "PropAccess" -> 10
      [] instruction = "CallFunc" -> 11
      [] instruction = "Eval" -> 12
      [] instruction = "CallBytecodeFunc" -> 13
      [] instruction = "ReturnBytecodeFunc" -> 14
      [] instruction = "Copy" -> 15
      [] instruction = "Exit" -> 16
      [] instruction = "JumpCond" -> 17
      [] instruction = "Jump" -> 18
      [] instruction = "JumpCondNeg" -> 19
      [] instruction = "LogicAnd" -> 30
      [] instruction = "LogicOr" -> 31
      [] instruction = "CompEqual" -> 50
      [] instruction = "CompNotEqual" -> 51
      [] instruction = "CompStrictEqual" -> 52
      [] instruction = "CompStrictNotEqual" -> 53
      [] instruction = "CompLessThan" -> 54
      [] instruction = "CompGreaterThan" -> 55
      [] instruction = "CompLessThanEqual" -> 56
      [] instruction = "CompGreaterThanEqual" -> 57
      [] instruction = "Add" -> 100
      [] instruction = "Minus" -> 101
      [] instruction = "Mul" -> 101
      [] instruction = "Div" -> 103

to_byte(instruction) ==
    CASE instruction = "LoadString" -> 1
      [] instruction = "LoadNum" -> 2
      [] instruction = "LoadFloatNum" -> 3
      [] instruction = "LoadLongNum" -> 4
      [] instruction = "LoadArray" -> 5
      [] instruction = "PropAccess" -> 10
      [] instruction = "CallFunc" -> 11
      [] instruction = "Eval" -> 12
      [] instruction = "CallBytecodeFunc" -> 13
      [] instruction = "ReturnBytecodeFunc" -> 14
      [] instruction = "Copy" -> 15
      [] instruction = "Exit" -> 16
      [] instruction = "JumpCond" -> 17
      [] instruction = "Jump" -> 18
      [] instruction = "JumpCondNeg" -> 19
      [] instruction = "LogicAnd" -> 30
      [] instruction = "LogicOr" -> 31
      [] instruction = "CompEqual" -> 50
      [] instruction = "CompNotEqual" -> 51
      [] instruction = "CompStrictEqual" -> 52
      [] instruction = "CompStrictNotEqual" -> 53
      [] instruction = "CompLessThan" -> 54
      [] instruction = "CompGreaterThan" -> 55
      [] instruction = "CompLessThanEqual" -> 56
      [] instruction = "CompGreaterThanEqual" -> 57
      [] instruction = "Add" -> 100
      [] instruction = "Minus" -> 102
      [] instruction = "Mul" -> 101
      [] instruction = "Div" -> 103

---------------------------------------------------------------------------
(* Operand *)

OperandString(s) == [kind |-> "String", string |-> s]
OperandFloatNum(f) == [kind |-> "FloatNum", num |-> f]
OperandLongNum(n) == [kind |-> "LongNum", num |-> n]
OperandShortNum(n) == [kind |-> "ShortNum", num |-> n]
OperandReg(n) == [kind |-> "Reg", num |-> n]
OperandRegistersArray(r) == [kind |-> "RegistersArray", regs |-> r]
function_addr(ident) == [kind |-> "FunctionAddr", token |-> [ident |-> ident]]
branch_addr(label) == [kind |-> "BranchAddr", token |-> [label |-> label]]

Returned(bs) == [panicked |-> FALSE, bytes |-> bs]
Panicked == [panicked |-> TRUE, bytes |-> <<>>]

BytecodeAddrToken_to_bytes(token) == [i \in 1..8 |-> 0]

LabelAddrToken_to_bytes(token) == [i \in 1..8 |-> 0]

encode_string(string) ==
    IF Len(string) > U16_MAX
    THEN Panicked
    ELSE Returned(<<as_u8(BitAnd(Len(string), 65280)), as_u8(BitAnd(Len(string), 255))>>
                  \o string)

\* the length check off by one: an array of exactly u8::MAX registers refused
encode_registers_array_Strict(regs) ==
    IF Len(regs) >= U8_MAX
    THEN Panicked
    ELSE Returned(<<as_u8(Len(regs))>> \o regs)

\* the count byte left out
encode_registers_array_NoCount(regs) ==
    IF Len(regs) > U8_MAX
    THEN Panicked
    ELSE Returned(regs)

encode_registers_array(regs) ==
    IF Len(regs) > U8_MAX
    THEN Panicked
    ELSE Returned(<<as_u8(Len(regs))>> \o regs)

\* the last two shifts exchanged
encode_long_num_Swapped(num) ==
    << U64AsU8(U64Shr(U64And(num, U64Hex(<<255, 0, 0, 0, 0, 0, 0, 0>>)), 56)),
       U64AsU8(U64Shr(U64And(num, U64Hex(<<0, 255, 0, 0, 0, 0, 0, 0>>)), 48)),
       U64AsU8(U64Shr(U64And(num, U64Hex(<<0, 0, 255, 0, 0, 0, 0, 0>>)), 40)),
       U64AsU8(U64Shr(U64And(num, U64Hex(<<0, 0, 0, 255, 0, 0, 0, 0>>)), 32)),
       U64AsU8(U64Shr(U64And(num, U64Hex(<<0, 0, 0, 0, 255, 0, 0, 0>>)), 24)),
       U64AsU8(U64Shr(U64And(num, U64Hex(<<0, 0, 0, 0, 0, 255, 0, 0>>)), 16)),
       U64AsU8(U64Shr(U64And(num, U64Hex(<<0, 0, 0, 0, 0, 0, 0, 255>>)), 0)),
       U64AsU8(U64Shr(U64And(num, U64Hex(<<0, 0, 0, 0, 0, 0, 255, 0>>)), 8)) >>

encode_long_num(num) ==
    << U64AsU8(U64Shr(U64And(num, U64Hex(<<255, 0, 0, 0, 0, 0, 0, 0>>)), 56)),
       U64AsU8(U64Shr(U64And(num, U64Hex(<<0, 255, 0, 0, 0, 0, 0, 0>>)), 48)),
       U64AsU8(U64Shr(U64And(num, U64Hex(<<0, 0, 255, 0, 0, 0, 0, 0>>)), 40)),
       U64AsU8(U64Shr(U64And(num, U64Hex(<<0, 0, 0, 255, 0, 0, 0, 0>>)), 32)),
       U64AsU8(U64Shr(U64And(num, U64Hex(<<0, 0, 0, 0, 255, 0, 0, 0>>)), 24)),
       U64AsU8(U64Shr(U64And(num, U64Hex(<<0, 0, 0, 0, 0, 255, 0, 0>>)), 16)),
       U64AsU8(U64Shr(U64And(num, U64Hex(<<0, 0, 0, 0, 0, 0, 255, 0>>)), 8)),
       U64AsU8(U64Shr(U64And(num, U64Hex(<<0, 0, 0, 0, 0, 0, 0, 255>>)), 0)) >>

encode_float_num(num) == encode_long_num(F64ToBits(num))

Operand_to_bytes(operand) ==
    CASE operand.kind = "String" -> encode_string(operand.string)
      [] operand.kind = "FloatNum" -> Returned(encode_float_num(operand.num))
      [] operand.kind = "LongNum" -> Returned(encode_long_num(I64AsU64(operand.num)))
      [] operand.kind \in {"ShortNum", "Reg"} -> Returned(<<operand.num>>)
      [] operand.kind = "RegistersArray" -> encode_registers_array(operand.regs)
      [] operand.kind = "FunctionAddr" -> Returned(BytecodeAddrToken_to_bytes(operand.token))
      [] operand.kind = "BranchAddr" -> Returned(LabelAddrToken_to_bytes(operand.token))

---------------------------------------------------------------------------
(* Literal (resast) and Operand::from_literal *)

LiteralNull == [kind |-> "Null"]
LiteralString(s) == [kind |-> "String", string |-> s]
LiteralNumber(text) == [kind |-> "Number", text |-> text]
LiteralBoolean(b) == [kind |-> "Boolean", bool |-> b]
LiteralRegEx(r) == [kind |-> "RegEx", regex |-> r]
LiteralTemplate(t) == [kind |-> "Template", template |-> t]

Digits == <<"0", "1", "2", "3", "4", "5", "6", "7", "8", "9">>

IsDigit(c) == \E d \in 1..10 : Digits[d] = c

DigitValue(c) == (CHOOSE d \in 1..10 : Digits[d] = c) - 1

ParseOk(v) == [ok |-> TRUE, value |-> v]
ParseErr == [ok |-> FALSE, value |-> 0]

\* the digit loop of u8::from_str: checked multiply by 10 and checked add
RECURSIVE ParseDigits(_, _)
ParseDigits(digits, acc) ==
    IF digits = <<>> THEN ParseOk(acc)
    ELSE IF ~IsDigit(Head(digits)) THEN ParseErr
    ELSE IF acc * 10 + DigitValue(Head(digits)) > U8_MAX THEN ParseErr
    ELSE ParseDigits(Tail(digits), acc * 10 + DigitValue(Head(digits)))

\* str::parse::<u8>: an optional '+', then one or more decimal digits, at most 255
ParseU8(src) ==
    IF src = <<>> THEN ParseErr
    ELSE IF src[1] \in {"+", "-"} /\ Len(src) = 1 THEN ParseErr
    ELSE IF src[1] = "+" THEN ParseDigits(Tail(src), 0)
    ELSE ParseDigits(src, 0)

BoolAsU8(b) == IF b THEN 1 ELSE 0

Ok(operand) == [outcome |-> "Ok", operand |-> operand]
Err(error) == [outcome |-> "Err", error |-> error]
Halted == [outcome |-> "panic"]

CompilerErrorCustom(msg) == [kind |-> "Custom", msg |-> msg]

from_literal(lit) ==
    CASE lit.kind = "Null" -> Ok(OperandReg(0))
      [] lit.kind = "String" -> Ok(OperandString(lit.string))
      [] lit.kind = "Number" ->
            IF ParseU8(lit.text).ok
            THEN Ok(OperandShortNum(ParseU8(lit.text).value))
            ELSE Halted
      [] lit.kind = "Boolean" -> Ok(OperandShortNum(BoolAsU8(lit.bool)))
      [] lit.kind \in {"RegEx", "Template"} ->
            Err(CompilerErrorCustom("regex and template literals are not supported"))

---------------------------------------------------------------------------
(* Command, BytecodeElement *)

Command(instruction, operands) == [instruction |-> instruction, operands |-> operands]

ElementCommand(cmd) == [kind |-> "Command", cmd |-> cmd]
ElementLabel(label) == [kind |-> "Label", label |-> label]

\* the operands appended in reverse
Command_to_bytes_Reversed(cmd) ==
    LET n == Len(cmd.operands)
        encoded == [i \in 1..n |-> Operand_to_bytes(cmd.operands[n + 1 - i])]
    IN  IF \E i \in 1..n : encoded[i].panicked
        THEN Panicked
        ELSE Returned(<<to_byte(cmd.instruction)>>
                      \o Flatten([i \in 1..n |-> encoded[i].bytes]))

Command_to_bytes(cmd) ==
    LET n == Len(cmd.operands)
        encoded == [i \in 1..n |-> Operand_to_bytes(cmd.operands[i])]
    IN  IF \E i \in 1..n : encoded[i].panicked
        THEN Panicked
        ELSE Returned(<<to_byte(cmd.instruction)>>
                      \o Flatten([i \in 1..n |-> encoded[i].bytes]))

BytecodeElement_to_bytes(element) ==
    CASE element.kind = "Command" -> Command_to_bytes(element.cmd)
      [] element.kind = "Label" -> Returned(<<>>)

---------------------------------------------------------------------------
(* Bytecode: the value is its elements *)

new == <<>>

add(self, command) == Append(self, ElementCommand(command))

add_label(self, label) == Append(self, ElementLabel(label))

\* other's elements put in front
combine_Prepend(self, other) == other \o self

combine(self, other) == self \o other

\* the last Command looked for, Labels skipped
RECURSIVE last_op_is_return_SkipLabels(_)
last_op_is_return_SkipLabels(self) ==
    IF self = <<>> THEN FALSE
    ELSE IF self[Len(self)].kind = "Command"
         THEN self[Len(self)].cmd.instruction = "ReturnBytecodeFunc"
         ELSE last_op_is_return_SkipLabels(SubSeq(self, 1, Len(self) - 1))

last_op_is_return(self) ==
    IF self = <<>> THEN FALSE
    ELSE IF self[Len(self)].kind = "Command"
         THEN self[Len(self)].cmd.instruction = "ReturnBytecodeFunc"
         ELSE FALSE

None == 0

\* no element filtered out
filter_map_next_All(self, pos) ==
    IF pos >= Len(self) THEN [pos |-> pos, item |-> None]
    ELSE [pos |-> pos + 1, item |-> pos + 1]

\* Iterator::next of commands_iter_mut's FilterMap: elements are pulled from
\* iter_mut until the closure gives Some(cmd); the item is the position of
\* the Command the yielded reference points at
RECURSIVE filter_map_next(_, _)
filter_map_next(self, pos) ==
    IF pos >= Len(self) THEN [pos |-> pos, item |-> None]
    ELSE IF self[pos + 1].kind = "Command" THEN [pos |-> pos + 1, item |-> pos + 1]
    ELSE filter_map_next(self, pos + 1)

from_iter(iter) == Flatten([i \in 1..Len(iter) |-> iter[i]])

Bytecode_to_bytes(self) ==
    LET n == Len(self)
        encoded == [i \in 1..n |-> BytecodeElement_to_bytes(self[i])]
    IN  IF \E i \in 1..n : encoded[i].panicked
        THEN Panicked
        ELSE Returned(Flatten([i \in 1..n |-> encoded[i].bytes]))

---------------------------------------------------------------------------
(* The inputs the runs draw from *)

SeqsUpTo(S, n) == UNION { [1..k -> S] : k \in 0..n }

\* printable ASCII, so that every string is valid UTF-8
LongString(n) == [i \in 1..n |-> 32 + (i % 95)]

HelloWorld == <<72, 101, 108, 108, 111, 32, 87, 111, 114, 108, 100>>

StringInputs ==
    SeqsUpTo({72, 105}, MaxStrLen) \cup {HelloWorld}
    \cup { LongString(n) : n \in {U8_MAX, U8_MAX + 1, U8_MAX + 2, U16_MAX, U16_MAX + 1} }

RegistersInputs ==
    SeqsUpTo({1, 2, 200}, MaxRegs) \cup {<<1, 2, 200>>}
    \cup { [i \in 1..n |-> i % 256] : n \in {U8_MAX, U8_MAX + 1} }

I64(neg, mag) == [neg |-> neg, mag |-> mag]

\* 2^63, the magnitude of i64::MIN
MinMag == U64Hex(<<128, 0, 0, 0, 0, 0, 0, 0>>)

Zero64 == U64Hex(<<0, 0, 0, 0, 0, 0, 0, 0>>)

\* 1234567890123456789 = 0x112210F47DE98115
TestMag == U64Hex(<<17, 34, 16, 244, 125, 233, 129, 21>>)

I64Inputs ==
    { I64(FALSE, U64Hex(bs)) : bs \in { b \in [1..8 -> {0, 1, 255}] : b[1] < 128 } }
    \cup { I64(TRUE, U64Hex(bs)) :
              bs \in { b \in [1..8 -> {0, 1, 255}] : b[1] < 128 /\ \E i \in 1..8 : b[i] # 0 } }
    \cup { I64(TRUE, MinMag), I64(FALSE, TestMag), I64(TRUE, TestMag) }

F64OfBits(bits) ==
    [sign |-> bits[1], exponent |-> SubSeq(bits, 2, 12), fraction |-> SubSeq(bits, 13, 64)]

\* 0.0, 0.12345, -1.1234, +infinity
F64Inputs ==
    { F64OfBits(U64Hex(bs)) :
        bs \in { <<0, 0, 0, 0, 0, 0, 0, 0>>, <<63, 191, 154, 107, 80, 176, 242, 124>>,
                 <<191, 241, 249, 114, 71, 69, 56, 239>>, <<127, 240, 0, 0, 0, 0, 0, 0>> } }

OperandInputs ==
    { OperandString(s) : s \in StringInputs }
    \cup { OperandRegistersArray(r) : r \in RegistersInputs }
    \cup { OperandShortNum(n) : n \in {0, 1, 150, U8_MAX} }
    \cup { OperandReg(n) : n \in {0, 1, 150, U8_MAX} }
    \cup { OperandLongNum(n) : n \in I64Inputs }
    \cup { OperandFloatNum(f) : f \in F64Inputs }
    \cup { function_addr("f") }
    \cup { branch_addr(l) : l \in 0..MaxLabel }

\* the text of a JavaScript decimal literal: digits with at most one ".", no
\* sign (a sign is a unary operator), no leading zero before another digit
IsDecimalLiteral(t) ==
    LET dots == { i \in 1..Len(t) : t[i] = "." }
        intLen == IF dots = {} THEN Len(t) ELSE (CHOOSE i \in dots : TRUE) - 1
    IN  /\ Cardinality(dots) <= 1
        /\ \/ intLen = 1
           \/ intLen > 1 /\ t[1] # "0"
           \/ intLen = 0 /\ Len(t) >= 2

NumberTexts ==
    { t \in SeqsUpTo({"0", "2", "5", "9", "."}, MaxNumLen) : IsDecimalLiteral(t) }

LiteralInputs ==
    { LiteralNull, LiteralBoolean(TRUE), LiteralBoolean(FALSE),
      LiteralRegEx("a+"), LiteralTemplate("t") }
    \cup { LiteralString(s) : s \in SeqsUpTo({72, 105}, MaxStrLen) }
    \cup { LiteralNumber(t) : t \in NumberTexts }

ReturnCommand == Command("ReturnBytecodeFunc", <<>>)
CopyCommand == Command("Copy", <<OperandReg(0), OperandReg(1)>>)
LoadStringCommand == Command("LoadString", <<OperandReg(2), OperandString(<<72, 105>>)>>)
JumpCommand == Command("Jump", <<branch_addr(1)>>)
\* a register array one element too long: encoding it panics
LoadArrayCommand ==
    Command("LoadArray",
            <<OperandReg(3), OperandRegistersArray([i \in 1..(U8_MAX + 1) |-> i % 256])>>)

CommandInputs ==
    {ReturnCommand, CopyCommand, LoadStringCommand, JumpCommand, LoadArrayCommand}

ElementInputs ==
    { ElementCommand(c) : c \in CommandInputs } \cup { ElementLabel(l) : l \in 0..MaxLabel }

\* the fragments combine is tried on: two labels, so that a duplicate and an
\* exchange both show, and one command
FragmentInputs ==
    SeqsUpTo({ElementLabel(0), ElementLabel(1), ElementCommand(ReturnCommand)}, MaxFragLen)

---------------------------------------------------------------------------
(* Runs of the pure functions: the argument is drawn, the call is made *)

Unset == "unset"

CallStart ==
    /\ pc = "start"
    /\ ret = Unset
    /\ elements = new
    /\ iter_pos = 0
    /\ yielded = <<>>

InitInstr == arg \in Instruction \X Instruction /\ CallStart

CallToByte ==
    /\ pc = "start"
    /\ ret' = <<to_byte(arg[1]), to_byte(arg[2])>>
    /\ pc' = "to_byte"
    /\ UNCHANGED <<arg, elements, iter_pos, yielded>>

SpecInstr == InitInstr /\ [][CallToByte]_vars

InitOperand == arg \in OperandInputs /\ CallStart

CallOperandToBytes ==
    /\ pc = "start"
    /\ ret' = Operand_to_bytes(arg)
    /\ pc' = "to_bytes"
    /\ UNCHANGED <<arg, elements, iter_pos, yielded>>

SpecOperand == InitOperand /\ [][CallOperandToBytes]_vars

InitLiteral == arg \in LiteralInputs /\ CallStart

CallFromLiteral ==
    /\ pc = "start"
    /\ ret' = from_literal(arg)
    /\ pc' = "from_literal"
    /\ UNCHANGED <<arg, elements, iter_pos, yielded>>

SpecLiteral == InitLiteral /\ [][CallFromLiteral]_vars

---------------------------------------------------------------------------
(* combine and FromIterator on three fragments; pc is the set of calls made *)

InitCombine ==
    /\ arg \in FragmentInputs \X FragmentInputs \X FragmentInputs
    /\ pc = {}
    /\ ret = [left |-> new, right |-> new, collected |-> new]
    /\ elements = new
    /\ iter_pos = 0
    /\ yielded = <<>>

CombineLeft ==
    /\ "left" \notin pc
    /\ ret' = [ret EXCEPT !.left = combine(combine(arg[1], arg[2]), arg[3])]
    /\ pc' = pc \cup {"left"}
    /\ UNCHANGED <<arg, elements, iter_pos, yielded>>

CombineRight ==
    /\ "right" \notin pc
    /\ ret' = [ret EXCEPT !.right = combine(arg[1], combine(arg[2], arg[3]))]
    /\ pc' = pc \cup {"right"}
    /\ UNCHANGED <<arg, elements, iter_pos, yielded>>

Collect ==
    /\ "collected" \notin pc
    /\ ret' = [ret EXCEPT !.collected = from_iter(arg)]
    /\ pc' = pc \cup {"collected"}
    /\ UNCHANGED <<arg, elements, iter_pos, yielded>>

NextCombine == CombineLeft \/ CombineRight \/ Collect

SpecCombine == InitCombine /\ [][NextCombine]_vars

---------------------------------------------------------------------------
(* The container: built from Bytecode::new() by add, add_label and combine,*)
(* read by to_bytes and last_op_is_return, rewritten through               *)
(* commands_iter_mut.  While the iterator lives the container is mutably   *)
(* borrowed and no other method can be called.                             *)

Borrowed == pc \in {"commands_iter_mut", "next", "rewrite"}

Range(s) == { s[i] : i \in 1..Len(s) }

Init ==
    /\ arg = <<>>
    /\ elements = new
    /\ ret = new
    /\ pc = "new"
    /\ iter_pos = 0
    /\ yielded = <<>>

Add(command) ==
    /\ ~Borrowed
    /\ Len(elements) < MaxElements
    /\ elements' = add(elements, command)
    /\ ret' = elements'
    /\ pc' = "add"
    /\ UNCHANGED <<arg, iter_pos, yielded>>

AddLabel(label) ==
    /\ ~Borrowed
    /\ Len(elements) < MaxElements
    /\ elements' = add_label(elements, label)
    /\ ret' = elements'
    /\ pc' = "add_label"
    /\ UNCHANGED <<arg, iter_pos, yielded>>

Combine(other) ==
    /\ ~Borrowed
    /\ Len(elements) + Len(other) <= MaxElements
    /\ elements' = combine(elements, other)
    /\ ret' = elements'
    /\ pc' = "combine"
    /\ UNCHANGED <<arg, iter_pos, yielded>>

ToBytes ==
    /\ ~Borrowed
    /\ ret' = Bytecode_to_bytes(elements)
    /\ pc' = "to_bytes"
    /\ UNCHANGED <<arg, elements, iter_pos, yielded>>

LastOpIsReturn ==
    /\ ~Borrowed
    /\ ret' = last_op_is_return(elements)
    /\ pc' = "last_op_is_return"
    /\ UNCHANGED <<arg, elements, iter_pos, yielded>>

CommandsIterMut ==
    /\ ~Borrowed
    /\ iter_pos' = 0
    /\ yielded' = <<>>
    /\ ret' = "iterator"
    /\ pc' = "commands_iter_mut"
    /\ UNCHANGED <<arg, elements>>

IterNext ==
    /\ Borrowed
    /\ iter_pos' = filter_map_next(elements, iter_pos).pos
    /\ ret' = filter_map_next(elements, iter_pos).item
    /\ yielded' = IF ret' = None THEN yielded ELSE Append(yielded, ret')
    /\ pc' = "next"
    /\ UNCHANGED <<arg, elements>>

\* the caller writes through a reference the iterator has yielded
Rewrite(i, command) ==
    /\ Borrowed
    /\ i \in Range(yielded)
    /\ elements' = [elements EXCEPT ![i] = ElementCommand(command)]
    /\ pc' = "rewrite"
    /\ UNCHANGED <<arg, ret, iter_pos, yielded>>

DropIter ==
    /\ Borrowed
    /\ iter_pos' = 0
    /\ yielded' = <<>>
    /\ ret' = "unit"
    /\ pc' = "drop"
    /\ UNCHANGED <<arg, elements>>

Next ==
    \/ \E command \in CommandInputs : Add(command)
    \/ \E label \in 0..MaxLabel : AddLabel(label)
    \/ \E other \in SeqsUpTo(ElementInputs, MaxFragLen) : Combine(other)
    \/ ToBytes
    \/ LastOpIsReturn
    \/ CommandsIterMut
    \/ IterNext
    \/ \E i \in 1..MaxElements, command \in CommandInputs : Rewrite(i, command)
    \/ DropIter

Spec == Init /\ [][Next]_vars

---------------------------------------------------------------------------
(* The claims *)

\* C4: Instruction::to_byte is total and injective over the 29 variants: every
\* variant has one byte value, and two distinct variants never share one.
OpcodeInjective ==
    /\ Cardinality(Instruction) = 29
    /\ pc = "to_byte" =>
          /\ ret[1] \in Bytes
          /\ ret[2] \in Bytes
          /\ arg[1] # arg[2] => ret[1] # ret[2]
          /\ arg[1] = arg[2] => ret[1] = ret[2]

OpcodeInjectiveWitness ==
    pc = "to_byte" /\ arg = <<"Minus", "Mul">> /\ ret = <<102, 101>>

\* C1: a String of at most 65535 bytes encodes to two length bytes b0, b1 with
\* 256*b0 + b1 = len(s), followed by the bytes of s verbatim.
StringLengthPrefix ==
    (pc = "to_bytes" /\ arg.kind = "String" /\ Len(arg.string) <= 65535) =>
        /\ ~ret.panicked
        /\ Len(ret.bytes) = Len(arg.string) + 2
        /\ 256 * ret.bytes[1] + ret.bytes[2] = Len(arg.string)
        /\ \A i \in 1..Len(arg.string) : ret.bytes[i + 2] = arg.string[i]

\* C3: encoding an operand panics exactly when it is a String of more than
\* 65535 bytes or a RegistersArray of more than 255 elements.
PanicExactlyWhenTooLong ==
    pc = "to_bytes" =>
        (ret.panicked <=>
            \/ arg.kind = "String" /\ Len(arg.string) > 65535
            \/ arg.kind = "RegistersArray" /\ Len(arg.regs) > 255)

PanicExactlyWhenTooLongWitness ==
    /\ pc = "to_bytes"
    /\ arg.kind = "String"
    /\ Len(arg.string) = 65536
    /\ ret.panicked

\* C9: a RegistersArray of at most 255 elements encodes to len+1 bytes: the
\* count, then the elements unchanged and in order; the empty one to <<0>>.
RegistersArrayEncoding ==
    (pc = "to_bytes" /\ arg.kind = "RegistersArray" /\ Len(arg.regs) <= 255) =>
        /\ ~ret.panicked
        /\ Len(ret.bytes) = Len(arg.regs) + 1
        /\ ret.bytes[1] = Len(arg.regs)
        /\ \A i \in 1..Len(arg.regs) : ret.bytes[i + 1] = arg.regs[i]
        /\ arg.regs = <<>> => ret.bytes = <<0>>

RegistersArrayEncodingWitness ==
    /\ pc = "to_bytes"
    /\ arg = OperandRegistersArray(<<1, 2, 200>>)
    /\ ret = Returned(<<3, 1, 2, 200>>)

\* bit k (0 the least significant) of a 64-bit magnitude
BitOf(mag, k) == mag[64 - k]

\* byte i (0 the first) of the big-endian form: bits 8*(7-i) .. 8*(7-i)+7
ByteOf(mag, i) ==
    BitOf(mag, 8 * (7 - i)) + 2 * BitOf(mag, 8 * (7 - i) + 1)
    + 4 * BitOf(mag, 8 * (7 - i) + 2) + 8 * BitOf(mag, 8 * (7 - i) + 3)
    + 16 * BitOf(mag, 8 * (7 - i) + 4) + 32 * BitOf(mag, 8 * (7 - i) + 5)
    + 64 * BitOf(mag, 8 * (7 - i) + 6) + 128 * BitOf(mag, 8 * (7 - i) + 7)

BigEndian(mag) == [i \in 1..8 |-> ByteOf(mag, i - 1)]

\* the carry into byte i when the big-endian numbers x and y are added
RECURSIVE CarryInto(_, _, _)
CarryInto(x, y, i) ==
    IF i = 8 THEN 0 ELSE (x[i + 1] + y[i + 1] + CarryInto(x, y, i + 1)) \div 256

\* x + y modulo 2^64, on big-endian bytes
AddBytes(x, y) == [i \in 1..8 |-> (x[i] + y[i] + CarryInto(x, y, i)) % 256]

CarryOut(x, y) == (x[1] + y[1] + CarryInto(x, y, 1)) \div 256

ComplementBytes(x) == [i \in 1..8 |-> 255 - x[i]]

\* -n in i64 (wrapping: -0 = 0, -MIN = MIN)
Negated(n) ==
    IF n.mag = Zero64 \/ (n.neg /\ n.mag = MinMag) THEN n ELSE I64(~n.neg, n.mag)

\* C5: LongNum(n) encodes to the 8 big-endian bytes of n mod 2^64 (for n < 0
\* the bytes and |n| add up to 2^64), and the encoding of -n is the
\* complement of the encoding of n, plus one, modulo 2^64.
LongNumTwosComplement ==
    (pc = "to_bytes" /\ arg.kind = "LongNum") =>
        /\ ~ret.panicked
        /\ Len(ret.bytes) = 8
        /\ \A i \in 1..8 : ret.bytes[i] \in Bytes
        /\ ~arg.num.neg => ret.bytes = BigEndian(arg.num.mag)
        /\ arg.num.neg =>
              /\ AddBytes(ret.bytes, BigEndian(arg.num.mag)) = <<0, 0, 0, 0, 0, 0, 0, 0>>
              /\ CarryOut(ret.bytes, BigEndian(arg.num.mag)) = 1
        /\ Operand_to_bytes(OperandLongNum(Negated(arg.num))).bytes
              = AddBytes(ComplementBytes(ret.bytes), <<0, 0, 0, 0, 0, 0, 0, 1>>)

LongNumTwosComplementWitness ==
    /\ pc = "to_bytes"
    /\ arg = OperandLongNum(I64(TRUE, TestMag))
    /\ ret = Returned(<<238, 221, 239, 11, 130, 22, 126, 235>>)

\* C2: from_literal fails with the unsupported-literal error for RegEx and
\* Template, and returns an operand for Null (Reg(0)), String (the same text),
\* Boolean (ShortNum 0 or 1) and every Number (a ShortNum).
FromLiteralOutcome ==
    pc = "from_literal" =>
        /\ arg.kind \in {"RegEx", "Template"} =>
              ret.outcome = "Err" /\ ret.error.kind = "Custom"
        /\ arg.kind = "Null" => ret = Ok(OperandReg(0))
        /\ arg.kind = "String" => ret = Ok(OperandString(arg.string))
        /\ arg.kind = "Boolean" =>
              ret \in {Ok(OperandShortNum(0)), Ok(OperandShortNum(1))}
        /\ arg.kind = "Number" =>
              ret.outcome = "Ok" /\ ret.operand.kind = "ShortNum"

IsCommand(element) == element.kind = "Command"

RECURSIVE SumTo(_, _)
SumTo(f, n) == IF n = 0 THEN 0 ELSE f[n] + SumTo(f, n - 1)

OperandWidths(cmd) ==
    [j \in 1..Len(cmd.operands) |-> Len(Operand_to_bytes(cmd.operands[j]).bytes)]

\* the bytes an element takes: none for a Label, the opcode and the operands
\* for a Command
ElementWidth(element) ==
    IF IsCommand(element)
    THEN 1 + SumTo(OperandWidths(element.cmd), Len(element.cmd.operands))
    ELSE 0

\* the bytes before element k
Offset(self, k) == SumTo([i \in 1..Len(self) |-> ElementWidth(self[i])], k - 1)

\* the bytes of a command before its operand j
OperandOffset(cmd, j) == 1 + SumTo(OperandWidths(cmd), j - 1)

NoOperandPanics(self) ==
    \A k \in 1..Len(self) :
        IsCommand(self[k]) =>
            \A j \in 1..Len(self[k].cmd.operands) :
                ~Operand_to_bytes(self[k].cmd.operands[j]).panicked

InsertAt(self, p, element) ==
    SubSeq(self, 1, p) \o <<element>> \o SubSeq(self, p + 1, Len(self))

\* C6: Bytecode::to_bytes returns the elements' encodings one after the other:
\* nothing for a Label; for a Command the opcode byte, then its operands'
\* encodings in operand order, nothing between or after. An empty Bytecode
\* gives no bytes, and adding or removing Labels does not change the bytes.
ToBytesIsConcatenation ==
    (pc = "to_bytes" /\ NoOperandPanics(elements)) =>
        /\ ~ret.panicked
        /\ Len(ret.bytes) = Offset(elements, Len(elements) + 1)
        /\ elements = <<>> => ret.bytes = <<>>
        /\ \A k \in 1..Len(elements) :
              IsCommand(elements[k]) =>
                  /\ ret.bytes[Offset(elements, k) + 1] = to_byte(elements[k].cmd.instruction)
                  /\ \A j \in 1..Len(elements[k].cmd.operands) :
                        SubSeq(ret.bytes,
                               Offset(elements, k) + OperandOffset(elements[k].cmd, j) + 1,
                               Offset(elements, k) + OperandOffset(elements[k].cmd, j)
                                   + OperandWidths(elements[k].cmd)[j])
                            = Operand_to_bytes(elements[k].cmd.operands[j]).bytes
        /\ Bytecode_to_bytes(SelectSeq(elements, IsCommand)) = ret
        /\ \A p \in 0..Len(elements), l \in 0..MaxLabel :
              Bytecode_to_bytes(InsertAt(elements, p, ElementLabel(l))) = ret

ToBytesIsConcatenationWitness ==
    /\ pc = "to_bytes"
    /\ elements = <<ElementCommand(CopyCommand), ElementLabel(0),
                    ElementCommand(LoadStringCommand)>>
    /\ ret = Returned(<<15, 0, 1, 1, 2, 0, 2, 72, 105>>)

\* C7: last_op_is_return() is true exactly when the container is not empty and
\* its last element is a Command whose instruction is ReturnBytecodeFunc:
\* false when empty, when the last element is a Label (whatever precedes it),
\* and when the last Command has another instruction.
LastOpIsReturnIff ==
    pc = "last_op_is_return" =>
        /\ ret \in BOOLEAN
        /\ elements = <<>> => ret = FALSE
        /\ (elements # <<>> /\ ~IsCommand(elements[Len(elements)])) => ret = FALSE
        /\ (elements # <<>> /\ IsCommand(elements[Len(elements)])) =>
              (ret <=> elements[Len(elements)].cmd.instruction = "ReturnBytecodeFunc")

LastOpIsReturnIffWitness ==
    /\ pc = "last_op_is_return"
    /\ elements = <<ElementCommand(ReturnCommand), ElementLabel(0)>>
    /\ ret = FALSE

\* r is a, then b, then c, element for element
IsLinearConcatenation(r, a, b, c) ==
    /\ Len(r) = Len(a) + Len(b) + Len(c)
    /\ \A i \in 1..Len(a) : r[i] = a[i]
    /\ \A i \in 1..Len(b) : r[Len(a) + i] = b[i]
    /\ \A i \in 1..Len(c) : r[Len(a) + Len(b) + i] = c[i]

\* C8: combine(combine(a,b),c), combine(a,combine(b,c)) and the collection of
\* [a,b,c] through FromIterator all hold a's, then b's, then c's elements,
\* each carried over as it was.
CombineAssociative ==
    /\ "left" \in pc => IsLinearConcatenation(ret.left, arg[1], arg[2], arg[3])
    /\ "right" \in pc => IsLinearConcatenation(ret.right, arg[1], arg[2], arg[3])
    /\ "collected" \in pc => IsLinearConcatenation(ret.collected, arg[1], arg[2], arg[3])
    /\ {"left", "right"} \subseteq pc => ret.left = ret.right
    /\ {"left", "collected"} \subseteq pc => ret.left = ret.collected

CombineAssociativeWitness ==
    /\ pc = {"left", "right", "collected"}
    /\ arg = << <<ElementLabel(0)>>,
                <<ElementLabel(0), ElementCommand(ReturnCommand)>>,
                <<ElementLabel(1)>> >>
    /\ ret.left = <<ElementLabel(0), ElementLabel(0), ElementCommand(ReturnCommand),
                    ElementLabel(1)>>

\* what the iterator has yielded after passing iter_pos elements: the
\* positions of the Commands among them, each once, in increasing order
YieldsCommandsInOrder ==
    Borrowed =>
        /\ \A i, j \in 1..Len(yielded) : i < j => yielded[i] < yielded[j]
        /\ Range(yielded) = { k \in 1..iter_pos : IsCommand(elements[k]) }
        /\ (pc = "next" /\ ret = None) => iter_pos = Len(elements)
        /\ (pc = "next" /\ ret # None) =>
              ret = yielded[Len(yielded)] /\ IsCommand(elements[ret])

\* a step taken while the iterator lives keeps the number of elements, which
\* positions hold Commands, and every Label
RewriteKeepsFrame ==
    (Borrowed /\ Borrowed') =>
        /\ Len(elements') = Len(elements)
        /\ \A k \in 1..Len(elements) :
              /\ IsCommand(elements'[k]) <=> IsCommand(elements[k])
              /\ ~IsCommand(elements[k]) => elements'[k] = elements[k]

\* C10: commands_iter_mut() yields exactly the Commands, each once, in program
\* order, skipping Labels; rewriting a yielded Command leaves the number of
\* elements, every element's position and every Label unchanged.
CommandsIterMutFrame == [](YieldsCommandsInOrder) /\ [][RewriteKeepsFrame]_vars

CommandsIterMutFrameWitness ==
    /\ pc = "rewrite"
    /\ iter_pos = 3
    /\ yielded = <<1, 3>>
    /\ elements = <<ElementCommand(JumpCommand), ElementLabel(1),
                    ElementCommand(CopyCommand)>>

===========================================================================
